---- MODULE Spec2Model ----
(***************************************************************************)
(* Grid trading engine of grid_trader.py (GridTrader, OrderManager) driven *)
(* through the exchange client of backpack_exchange.py.                    *)
(*                                                                         *)
(* Units: prices and quote amounts are integers of 0.01 (the 2 decimals of *)
(* round(price, 2)); order amounts and base balances are integers of 0.001 *)
(* (the 3 decimals of round(amount, 3)).  Arithmetic is exact: the binary  *)
(* floating point error of the Python floats is not modelled.              *)
(*                                                                         *)
(* The venue's price and balances are not state of the engine: each        *)
(* fetch_ticker / fetch_balance returns any value of Prices / Balances.    *)
(*                                                                         *)
(* Every venue call (fetch_ticker, fetch_balance, fetch_open_orders,       *)
(* create_order, cancel_order) is one blocking round trip and one step of  *)
(* the model; it either returns or raises.  Between two calls the venue    *)
(* moves on its own (fills) and a signal may be delivered:                 *)
(* signal.signal() installs signal_handler, which Python runs in the main  *)
(* thread at whatever point the main flow has reached.                     *)
(*                                                                         *)
(* Specifications: Spec is the engine (run, the loop, the handler, the     *)
(* venue); SpecBadConfig is the same engine on a ladder with upper < lower;*)
(* SpecLedger drives OrderManager alone; SpecLadder applies                *)
(* calculate_grid_prices and get_order_amount to many configurations;      *)
(* SpecQuiet is the engine in a still market: env fixes the price and the  *)
(* balances, no order fills, no call raises, no signal arrives; SpecRelay  *)
(* is that market with a cancel sweep whose calls may raise.               *)
(***************************************************************************)
EXTENDS Integers, Sequences, FiniteSets, TLC

\* ------------------------------------------------------------------ bounds
\* create_order calls explored in one run (each successful call gets a new id)
MaxCreate == 1
\* create_order calls explored in one run in a still market (env.fixed), where
\* the runs are few
MaxStillCreate == 2
\* time.sleep() calls explored in one run (loop iterations after the first)
MaxClock == 1

\* ------------------------------------------------------- program constants
\* Python None (closed_at, filled_price, filled_amount, profit defaults)
NoneVal == -1
\* fee_rate = 0.003, in thousandths
FeeRateMilli == 3
\* price_range = 0.1, in percent
PriceRangePct == 10

\* ------------------------------------------------------------- environment
\* the configuration GridTrader.__init__ reads from the environment
EngineConfigs ==
  { [ lower_price |-> 8000, upper_price |-> 12000, grid_number |-> 4,
      investment |-> 40000, grid_type |-> "arithmetic", min_order_size |-> 10, max_orders |-> 1,
      stop_loss_price |-> 7500, take_profit_price |-> 12500 ] }

\* last prices the ticker can report: below, at and between the stop-loss
\* and take-profit prices of EngineConfigs, at and above take-profit
Prices == {7000, 7500, 10000, 12500, 13000}
\* free balances the venue can report: base (0.001) and quote (0.01)
Balances == { [base |-> 0, quote |-> 1000000],
              [base |-> 2000, quote |-> 1000000],
              [base |-> 500, quote |-> 0] }

\* check_balance holds no fetched balance
NoBalance == [base |-> NoneVal, quote |-> NoneVal]

\* no fixed market: every fetch draws its answer anew
NoEnv == [price |-> 0, bal |-> [base |-> 0, quote |-> 0], fixed |-> FALSE]

VARIABLES
  cfg,          \* the configuration of this run
  env,          \* the market of a run in which nothing moves: the price and the
                \* balances every fetch returns; NoEnv when they are free
  venue,        \* venue: orders listed by the open-orders endpoint, id -> raw record
  ledger,       \* OrderManager.orders: order_id -> OrderInfo
  pc,           \* position of the main thread
  pgoRet,       \* caller of place_grid_orders: "init" (run) or "caa" (the loop)
  caoRet,       \* caller of cancel_all_orders: "pgo", "risk" or "signal"
  pgoPrice,     \* current_price of place_grid_orders
  poPrice,      \* current_price of place_order
  poSide,       \* side argument of place_order
  balObs,       \* balance of check_balance, while the order it allowed is placed
  lvl,          \* index into grid_prices of the loop of place_grid_orders
  caaPrice,     \* current_price of check_and_adjust_orders
  baseObs,      \* base_balance of check_and_adjust_orders
  openSnap,     \* open_orders of check_and_adjust_orders
  caoSnap,      \* open_orders of cancel_all_orders
  caoIdx,       \* position of the loop of cancel_all_orders
  now,          \* datetime.now(), advanced by time.sleep
  nCreate,      \* history: number of create_order calls issued
  lastSubmit,   \* history: arguments of the create_order call just issued
  poReq,        \* history: venue requests issued by the place_order call just made
  caoTried,     \* history: ids cancel_order was called for in this sweep
  caoFail,      \* history: ids whose cancel_order raised in this sweep
  relayBase,    \* history: nCreate when the current place_grid_orders began
  allOk,        \* history: no venue call has raised since the iteration began
  riskBreached, \* history: the stop-loss/take-profit check evaluated true
  shutdown,     \* history: signal_handler has started
  call,         \* history: the ledger / ladder function applied last, with its arguments
  result,       \* history: the value that call returned
  guard         \* history: the stop-loss/take-profit test of the current loop iteration:
                \* "none" outside the loop's iterations, "pending", "done"

vars == << cfg, balObs, env, venue, ledger, pc, pgoRet, caoRet, pgoPrice, poPrice,
           poSide, lvl, caaPrice, baseObs, openSnap, caoSnap, caoIdx, now,
           nCreate, lastSubmit, poReq, caoTried, caoFail, relayBase, allOk,
           riskBreached, shutdown, call, result, guard >>

\* the create_order calls explored in this run
CreateBudget == IF env.fixed THEN MaxStillCreate ELSE MaxCreate

\* what fetch_ticker can return as the last price
TickerPrices == IF env.fixed THEN {env.price} ELSE Prices
\* what fetch_balance can return as the free balances
FreeBalances == IF env.fixed THEN {env.bal} ELSE Balances


\* ---------------------------------------------------------------- helpers
Max(a, b) == IF a >= b THEN a ELSE b
Min(a, b) == IF a <= b THEN a ELSE b

\* round(): a / b to the nearest integer, ties to even (a >= 0, b > 0)
RoundDiv(a, b) ==
  LET q == a \div b
      r == a % b
  IN  IF 2 * r < b THEN q
      ELSE IF 2 * r > b THEN q + 1
      ELSE IF q % 2 = 0 THEN q ELSE q + 1

RECURSIVE Pow(_, _)
Pow(x, n) == IF n = 0 THEN 1 ELSE x * Pow(x, n - 1)

\* ------------------------------------------------- Price Ladder Generator
\* lower * (upper/lower)^(i/N) rounded to 2 decimals: the k with
\* (k - 1/2)^N <= lower^(N-i) * upper^i < (k + 1/2)^N
GeometricPrice(c, i) ==
  LET n == c.grid_number
      x == Pow(2, n) * Pow(c.lower_price, n - i) * Pow(c.upper_price, i)
  IN  CHOOSE k \in c.lower_price .. c.upper_price :
        Pow(2 * k - 1, n) <= x /\ x < Pow(2 * k + 1, n)

\* faulty variant of calculate_grid_prices: the arithmetic levels are counted
\* from 1 (level i = lower + (i + 1) * step)
calculate_grid_pricesFromOne(c) ==
  IF c.grid_type = "arithmetic"
  THEN [ i \in 1 .. c.grid_number + 1 |->
           RoundDiv(c.lower_price * c.grid_number
                      + i * (c.upper_price - c.lower_price),
                    c.grid_number) ]
  ELSE [ i \in 1 .. c.grid_number + 1 |-> GeometricPrice(c, i - 1) ]

calculate_grid_prices(c) ==
  IF c.grid_type = "arithmetic"
  THEN [ i \in 1 .. c.grid_number + 1 |->
           RoundDiv(c.lower_price * c.grid_number
                      + (i - 1) * (c.upper_price - c.lower_price),
                    c.grid_number) ]
  ELSE [ i \in 1 .. c.grid_number + 1 |-> GeometricPrice(c, i - 1) ]

grid_prices == calculate_grid_prices(cfg)

\* faulty variant of get_order_amount: min_order_size is not applied
get_order_amountNoMin(c, p) ==
  RoundDiv(1000 * c.investment, c.grid_number * p)

get_order_amount(c, p) ==
  Max(RoundDiv(1000 * c.investment, c.grid_number * p), c.min_order_size)

\* ----------------------------------------------------------- Order Ledger
OrderInfo(id, side, p, amount) ==
  [ order_id |-> id, side |-> side, price |-> p, amount |-> amount,
    status |-> "open", closed_at |-> NoneVal, filled_price |-> NoneVal,
    filled_amount |-> NoneVal, profit |-> NoneVal ]

add_order(orders, order) ==
  [ id \in DOMAIN orders \cup {order.order_id} |->
      IF id = order.order_id THEN order ELSE orders[id] ]

\* Python truth value of an optional number: neither None nor 0
Truthy(x) == x # NoneVal /\ x # 0

\* faulty variant of update_order: an unknown id gets a new entry
update_orderCreates(orders, id, status, filled_price, filled_amount, t) ==
  [ x \in DOMAIN orders \cup {id} |->
      IF x \in DOMAIN orders THEN orders[x]
      ELSE [OrderInfo(id, "bid", 0, 0) EXCEPT !.status = status] ]

update_order(orders, id, status, filled_price, filled_amount, t) ==
  IF id \notin DOMAIN orders THEN orders
  ELSE
    LET o  == orders[id]
        o1 == [o EXCEPT !.status = status]
        o2 == IF status \in {"closed", "cancelled"}
              THEN [o1 EXCEPT !.closed_at = t] ELSE o1
        o3 == IF Truthy(filled_price) /\ Truthy(filled_amount)
              THEN [o2 EXCEPT !.filled_price = filled_price,
                              !.filled_amount = filled_amount,
                              !.profit = IF o.side = "ask"
                                         THEN (filled_price - o.price) * filled_amount
                                         ELSE o.profit]
              ELSE o2
    IN  [orders EXCEPT ![id] = o3]

get_open_orders(orders) == { id \in DOMAIN orders : orders[id].status = "open" }
get_closed_orders(orders) == { id \in DOMAIN orders : orders[id].status = "closed" }

\* ------------------------------------------------------- exchange client
\* _parse_order: the fields the engine reads; the parsed record has no
\* 'average' key, so order.get('average', 0) is 0
_parse_order(o) ==
  [ id |-> o.id, side |-> o.side, price |-> o.price, amount |-> o.quantity,
    filled |-> o.executedQuantity, status |-> o.status ]

OrderGet(o, key, default) ==
  IF key \in DOMAIN o THEN o[key] ELSE default

\* fetch_open_orders: the venue's list, parsed, in the venue's (id) order
RECURSIVE ListFrom(_, _)
ListFrom(v, i) ==
  IF i > CreateBudget THEN << >>
  ELSE IF i \in DOMAIN v THEN << _parse_order(v[i]) >> \o ListFrom(v, i + 1)
  ELSE ListFrom(v, i + 1)

fetch_open_orders(v) == ListFrom(v, 0)

SnapIds(s) == { s[i].id : i \in DOMAIN s }

\* ------------------------------------------------------------- Risk Guard
\* faulty variant of Breached: the two bounds themselves are not a breach
BreachedStrict(c, p) == p < c.stop_loss_price \/ p > c.take_profit_price

Breached(c, p) == p <= c.stop_loss_price \/ p >= c.take_profit_price

\* --------------------------------------------------------- placement rule
\* faulty variant of InBand: a band of twice the width
InBandWide(p, cur) ==
  /\ cur * (100 - 2 * PriceRangePct) <= 100 * p
  /\ 100 * p <= cur * (100 + 2 * PriceRangePct)

\* min_price <= price <= max_price with min/max = current * (1 -/+ 0.1)
InBand(p, cur) ==
  /\ cur * (100 - PriceRangePct) <= 100 * p
  /\ 100 * p <= cur * (100 + PriceRangePct)

\* faulty variant of BalanceEnough: the base balance of a Sell is not tested
BalanceEnoughBidOnly(side, amount, p, b) ==
  IF side = "bid" THEN ~(1000 * b.quote < amount * p)
  ELSE TRUE

\* check_balance once the balance has been fetched
BalanceEnough(side, amount, p, b) ==
  IF side = "bid" THEN ~(1000 * b.quote < amount * p)
  ELSE ~(b.base < amount)

\* faulty variant of WouldCross: only a Buy is tested against the price
WouldCrossBidOnly(side, p, cur) ==
  IF side = "bid" THEN p >= cur ELSE FALSE

\* place_order: the order would execute immediately
WouldCross(side, p, cur) ==
  IF side = "bid" THEN p >= cur ELSE p <= cur

\* ----------------------------------------------------- Rebalancing Policy
CountSide(s, side) == Cardinality({ i \in DOMAIN s : s[i].side = side })

PossibleBuys(g, cur) == Cardinality({ i \in DOMAIN g : g[i] < cur })
PossibleSells(g, cur) == Cardinality({ i \in DOMAIN g : g[i] > cur })

\* faulty variant of BuyRelay: re-lay also when the counts are equal
BuyRelayLe(g, cur, snap) == CountSide(snap, "Bid") <= PossibleBuys(g, cur)

BuyRelay(g, cur, snap) == CountSide(snap, "Bid") < PossibleBuys(g, cur)

\* faulty variant of MaxPossibleSells: the fee haircut is left out
MaxPossibleSellsNoFee(c, cur, base) ==
  (base * 1000) \div (1000 * get_order_amount(c, cur))

MaxPossibleSells(c, cur, base) ==
  (base * (1000 - FeeRateMilli)) \div (1000 * get_order_amount(c, cur))

SellRelay(c, g, cur, base, snap) ==
  CountSide(snap, "Ask") < Min(PossibleSells(g, cur), MaxPossibleSells(c, cur, base))

\* faulty variant of NeedRelay: both sides are evaluated whatever the balance
NeedRelayBoth(c, g, cur, base, snap) ==
  BuyRelay(g, cur, snap) \/ (base > 0 /\ SellRelay(c, g, cur, base, snap))

NeedRelay(c, g, cur, base, snap) ==
  IF base = 0 THEN BuyRelay(g, cur, snap)
  ELSE SellRelay(c, g, cur, base, snap)

\* reconciliation loop of check_and_adjust_orders over the fetched open orders
RECURSIVE Reconcile(_, _, _, _)
Reconcile(orders, snap, i, t) ==
  IF i > Len(snap) THEN orders
  ELSE
    LET o == snap[i]
        next == IF o.id \in DOMAIN orders /\ o.status = "closed"
                THEN update_order(orders, o.id, "closed",
                                  OrderGet(o, "average", 0), OrderGet(o, "filled", 0), t)
                ELSE orders
    IN  Reconcile(next, snap, i + 1, t)

\* ------------------------------------------------------------------- Init
NoSubmit == [side |-> "none", price |-> 0, amount |-> 0, cur |-> 0, cur2 |-> 0,
             bal |-> NoBalance]

\* place_order has issued no venue request
NoReq == [calls |-> {}, skipped |-> FALSE, side |-> "none", price |-> 0, cur |-> 0]

\* no ledger / ladder function has been applied on its own
NoCall == [op |-> "none"]

\* an order left on the venue by an earlier run: it is not in the ledger
ExternalOrder ==
  [ id |-> 0, side |-> "Bid", price |-> 9000, quantity |-> 1000,
    executedQuantity |-> 0, status |-> "New" ]

Terminal == {"stopped", "exited"}

Init ==
  /\ cfg \in EngineConfigs
  /\ env = NoEnv
  /\ balObs = NoBalance
  /\ venue \in { << >>, [id \in {ExternalOrder.id} |-> ExternalOrder] }
  /\ ledger = << >>
  /\ pc = "run_start"
  /\ pgoRet = "init"
  /\ caoRet = "pgo"
  /\ pgoPrice = 0 /\ poPrice = 0 /\ poSide = "none" /\ lvl = 1
  /\ caaPrice = 0 /\ baseObs = 0 /\ openSnap = << >>
  /\ caoSnap = << >> /\ caoIdx = 1
  /\ now = 0
  /\ nCreate = 0
  /\ lastSubmit = NoSubmit
  /\ poReq = NoReq
  /\ caoTried = {} /\ caoFail = {}
  /\ relayBase = 0
  /\ allOk = TRUE
  /\ riskBreached = FALSE
  /\ shutdown = FALSE
  /\ call = NoCall
  /\ result = NoneVal
  /\ guard = "none"

\* variables of cancel_all_orders
caoVars == << caoSnap, caoIdx, caoTried, caoFail >>
\* locals of place_grid_orders / place_order
pgoVars == << pgoPrice, poPrice, poSide, lvl >>
\* locals of check_and_adjust_orders
caaVars == << caaPrice, baseObs, openSnap >>
histVars == << nCreate, lastSubmit, poReq, relayBase, riskBreached, shutdown >>

CaoEnter(ret) ==
  /\ pc' = "cao_fetch"
  /\ caoRet' = ret
  /\ caoSnap' = << >> /\ caoIdx' = 1 /\ caoTried' = {} /\ caoFail' = {}

\* --------------------------------------------------------------- run()
\* run(): the initial place_grid_orders()
Run ==
  /\ pc = "run_start"
  /\ pc' = "pgo_ticker"
  /\ pgoRet' = "init"
  /\ UNCHANGED << cfg, balObs, env, call, result, guard, venue, ledger, caoRet, pgoVars, caaVars,
                  caoVars, now, histVars, allOk >>

\* where place_grid_orders returns to: the loop of run() (first iteration), or
\* the end of check_and_adjust_orders (return True, then time.sleep)
PgoLeave ==
  /\ pc' = IF pgoRet = "init" THEN "caa_ticker" ELSE "sleep"
  /\ pgoPrice' = 0 /\ poPrice' = 0 /\ poSide' = "none" /\ lvl' = 1
  /\ caoSnap' = << >> /\ caoIdx' = 1 /\ caoTried' = {} /\ caoFail' = {}
  /\ relayBase' = 0
  /\ guard' = IF pgoRet = "init" THEN "pending" ELSE guard

\* ---------------------------------------------------- place_grid_orders()
\* faulty variant of PgoTickerOk: cancel_all_orders() is not called
PgoTickerOkNoCancel ==
  /\ pc = "pgo_ticker"
  /\ \E p \in TickerPrices : pgoPrice' = p
  /\ relayBase' = nCreate
  /\ pc' = "pgo_level" /\ lvl' = 1
  /\ UNCHANGED << cfg, balObs, env, call, result, guard, venue, ledger, pgoRet, caoRet, poPrice, poSide,
                  caaVars, caoVars, now, nCreate, lastSubmit, poReq, allOk, riskBreached,
                  shutdown >>

PgoTickerOk ==
  /\ pc = "pgo_ticker"
  /\ \E p \in TickerPrices : pgoPrice' = p
  /\ relayBase' = nCreate
  /\ CaoEnter("pgo")
  /\ UNCHANGED << cfg, balObs, env, call, result, guard, venue, ledger, pgoRet, poPrice, poSide, lvl,
                  caaVars, now, nCreate, lastSubmit, poReq, allOk, riskBreached, shutdown >>

PgoTickerFail ==
  /\ pc = "pgo_ticker"
  /\ PgoLeave
  /\ allOk' = (pgoRet = "init")
  /\ UNCHANGED << cfg, balObs, env, call, result, venue, ledger, pgoRet, caoRet, caaVars, now, nCreate,
                  lastSubmit, poReq, riskBreached, shutdown >>

\* ---------------------------------------------------- cancel_all_orders()
CaoFetchOk ==
  /\ pc = "cao_fetch"
  /\ caoSnap' = fetch_open_orders(venue)
  /\ pc' = IF caoSnap' = << >> THEN "cao_ret" ELSE "cao_cancel"
  /\ UNCHANGED << cfg, balObs, env, call, result, guard, venue, ledger, pgoRet, caoRet, pgoVars, caaVars,
                  caoIdx, caoTried, caoFail, now, histVars, allOk >>

CaoFetchFail ==
  /\ pc = "cao_fetch"
  /\ pc' = "cao_ret"
  /\ allOk' = FALSE
  /\ UNCHANGED << cfg, balObs, env, call, result, guard, venue, ledger, pgoRet, caoRet, pgoVars, caaVars,
                  caoVars, now, histVars >>

CaoAdvance ==
  /\ caoIdx' = caoIdx + 1
  /\ pc' = IF caoIdx >= Len(caoSnap) THEN "cao_ret" ELSE "cao_cancel"
  /\ caoTried' = caoTried \cup {caoSnap[caoIdx].id}

\* the venue cancels an order it still holds unfilled
Cancellable(v, id) == id \in DOMAIN v /\ v[id].status = "New"

Remove(v, id) == [ x \in DOMAIN v \ {id} |-> v[x] ]

Put(v, id, o) == [ x \in DOMAIN v \cup {id} |-> IF x = id THEN o ELSE v[x] ]

\* cancel_order returned a record with status Cancelled
CaoCancelOk ==
  /\ pc = "cao_cancel"
  /\ LET id == caoSnap[caoIdx].id IN
       /\ Cancellable(venue, id)
       /\ venue' = Remove(venue, id)
       /\ ledger' = IF id \in DOMAIN ledger
                    THEN update_order(ledger, id, "cancelled", NoneVal, NoneVal, now)
                    ELSE ledger
  /\ CaoAdvance
  /\ UNCHANGED << cfg, balObs, env, call, result, guard, pgoRet, caoRet, pgoVars, caaVars, caoSnap,
                  caoFail, now, histVars, allOk >>

\* faulty variant of CaoCancelFail: the ledger entry is marked cancelled anyway
CaoCancelFailMarks ==
  /\ pc = "cao_cancel"
  /\ CaoAdvance
  /\ caoFail' = caoFail \cup {caoSnap[caoIdx].id}
  /\ allOk' = FALSE
  /\ ledger' = update_order(ledger, caoSnap[caoIdx].id, "cancelled", NoneVal, NoneVal, now)
  /\ UNCHANGED << cfg, balObs, env, call, result, guard, venue, pgoRet, caoRet, pgoVars, caaVars, caoSnap, now,
                  histVars >>

\* faulty variant of CaoCancelFail: the exception ends the loop over the orders
CaoCancelFailAborts ==
  /\ pc = "cao_cancel"
  /\ pc' = "cao_ret"
  /\ caoIdx' = caoIdx + 1
  /\ caoTried' = caoTried \cup {caoSnap[caoIdx].id}
  /\ caoFail' = caoFail \cup {caoSnap[caoIdx].id}
  /\ allOk' = FALSE
  /\ UNCHANGED << cfg, balObs, env, call, result, guard, venue, ledger, pgoRet, caoRet, pgoVars, caaVars,
                  caoSnap, now, histVars >>

\* cancel_order raised: transport error, or the venue did not answer Cancelled
CaoCancelFail ==
  /\ pc = "cao_cancel"
  /\ CaoAdvance
  /\ caoFail' = caoFail \cup {caoSnap[caoIdx].id}
  /\ allOk' = FALSE
  /\ UNCHANGED << cfg, balObs, env, call, result, guard, venue, ledger, pgoRet, caoRet, pgoVars, caaVars,
                  caoSnap, now, histVars >>

\* cancel_all_orders returns into place_grid_orders: the loop over grid_prices
CaoReturnToPlace ==
  /\ pc = "cao_ret" /\ caoRet = "pgo"
  /\ pc' = "pgo_level"
  /\ lvl' = 1
  /\ caoSnap' = << >> /\ caoIdx' = 1 /\ caoTried' = {} /\ caoFail' = {}
  /\ UNCHANGED << cfg, balObs, env, call, result, guard, venue, ledger, pgoRet, caoRet, pgoPrice, poPrice,
                  poSide, caaVars, now, histVars, allOk >>

\* faulty variant of RiskStop: the breach branch returns True
RiskStopReturnsTrue ==
  /\ pc = "cao_ret" /\ caoRet = "risk"
  /\ pc' = "sleep"
  /\ UNCHANGED << cfg, balObs, env, call, result, guard, venue, ledger, pgoRet, caoRet, pgoVars, caaVars,
                  caoVars, now, histVars, allOk >>

\* cancel_all_orders returns into the breach branch: return False, run() breaks
RiskStop ==
  /\ pc = "cao_ret" /\ caoRet = "risk"
  /\ pc' = "stopped"
  /\ UNCHANGED << cfg, balObs, env, call, result, guard, venue, ledger, pgoRet, caoRet, pgoVars, caaVars,
                  caoVars, now, histVars, allOk >>

\* faulty variant of HandlerExit: the handler returns and the loop goes on
HandlerExitResumes ==
  /\ pc = "cao_ret" /\ caoRet = "signal"
  /\ pc' = "sleep"
  /\ UNCHANGED << cfg, balObs, env, call, result, guard, venue, ledger, pgoRet, caoRet, pgoVars, caaVars,
                  caoVars, now, histVars, allOk >>

\* cancel_all_orders returns into signal_handler: summary, then sys.exit(0)
HandlerExit ==
  /\ pc = "cao_ret" /\ caoRet = "signal"
  /\ pc' = "exited"
  /\ UNCHANGED << cfg, balObs, env, call, result, guard, venue, ledger, pgoRet, caoRet, pgoVars, caaVars,
                  caoVars, now, histVars, allOk >>

\* ------------------------------------- place_grid_orders(): loop over levels
LevelSide(p, cur) == IF p < cur THEN "bid" ELSE "ask"

\* a level that gets an order attempt: inside the band and not at the current price
LevelDue(p, cur) == InBand(p, cur) /\ p # cur

\* the level is outside the band (logged), or equal to the current price
PgoSkipLevel ==
  /\ pc = "pgo_level" /\ lvl <= Len(grid_prices)
  /\ ~LevelDue(grid_prices[lvl], pgoPrice)
  /\ lvl' = lvl + 1
  /\ lastSubmit' = NoSubmit
  /\ poReq' = NoReq
  /\ UNCHANGED << cfg, balObs, env, call, result, guard, venue, ledger, pc, pgoRet, caoRet, pgoPrice,
                  poPrice, poSide, caaVars, caoVars, now, nCreate, relayBase,
                  riskBreached, shutdown, allOk >>

\* check_balance(): fetch_balance returned
PgoCheckBalance ==
  /\ pc = "pgo_level" /\ lvl <= Len(grid_prices)
  /\ LevelDue(grid_prices[lvl], pgoPrice)
  /\ \E b \in FreeBalances :
       LET p    == grid_prices[lvl]
           side == LevelSide(p, pgoPrice)
       IN  IF BalanceEnough(side, get_order_amount(cfg, p), p, b)
           THEN /\ pc' = "po_ticker" /\ poSide' = side /\ lvl' = lvl
                /\ balObs' = b
           ELSE /\ pc' = "pgo_level" /\ poSide' = "none" /\ lvl' = lvl + 1
                /\ balObs' = NoBalance
  /\ lastSubmit' = NoSubmit
  /\ poReq' = NoReq
  /\ UNCHANGED << cfg, env, call, result, guard, venue, ledger, pgoRet, caoRet, pgoPrice, poPrice,
                  caaVars, caoVars, now, nCreate, relayBase, riskBreached, shutdown,
                  allOk >>

\* check_balance(): fetch_balance raised, check_balance returns False
PgoCheckBalanceFail ==
  /\ pc = "pgo_level" /\ lvl <= Len(grid_prices)
  /\ LevelDue(grid_prices[lvl], pgoPrice)
  /\ lvl' = lvl + 1
  /\ allOk' = FALSE
  /\ lastSubmit' = NoSubmit
  /\ poReq' = NoReq
  /\ UNCHANGED << cfg, balObs, env, call, result, guard, venue, ledger, pc, pgoRet, caoRet, pgoPrice,
                  poPrice, poSide, caaVars, caoVars, now, nCreate, relayBase,
                  riskBreached, shutdown >>

\* the loop over grid_prices is over: place_grid_orders returns
PgoReturn ==
  /\ pc = "pgo_level" /\ lvl > Len(grid_prices)
  /\ PgoLeave
  /\ allOk' = IF pgoRet = "init" THEN TRUE ELSE allOk
  /\ lastSubmit' = NoSubmit
  /\ poReq' = NoReq
  /\ UNCHANGED << cfg, balObs, env, call, result, venue, ledger, pgoRet, caoRet, caaVars, now, nCreate,
                  riskBreached, shutdown >>

\* ---------------------------------------------------------- place_order()
PoNextLevel ==
  /\ pc' = "pgo_level" /\ lvl' = lvl + 1 /\ poPrice' = 0 /\ poSide' = "none"
  /\ balObs' = NoBalance

\* fetch_ticker returned: the order is skipped when it would execute at once
PoTickerOk ==
  /\ pc = "po_ticker"
  /\ \E p \in TickerPrices :
       /\ IF WouldCross(poSide, grid_prices[lvl], p)
          THEN PoNextLevel
          ELSE /\ pc' = "po_create" /\ poPrice' = p /\ UNCHANGED << lvl, poSide, balObs >>
       /\ poReq' = [calls |-> {"fetch_ticker"},
                    skipped |-> WouldCross(poSide, grid_prices[lvl], p),
                    side |-> poSide, price |-> grid_prices[lvl], cur |-> p]
  /\ UNCHANGED << cfg, env, call, result, guard, venue, ledger, pgoRet, caoRet, pgoPrice, caaVars,
                  caoVars, now, nCreate, lastSubmit, relayBase, riskBreached,
                  shutdown, allOk >>

PoTickerFail ==
  /\ pc = "po_ticker"
  /\ PoNextLevel
  /\ allOk' = FALSE
  /\ poReq' = [NoReq EXCEPT !.calls = {"fetch_ticker"}, !.side = poSide,
                            !.price = grid_prices[lvl]]
  /\ UNCHANGED << cfg, env, call, result, guard, venue, ledger, pgoRet, caoRet, pgoPrice, caaVars,
                  caoVars, now, nCreate, lastSubmit, relayBase, riskBreached,
                  shutdown >>

Submission(side, p, amount) ==
  [side |-> side, price |-> p, amount |-> amount, cur |-> pgoPrice, cur2 |-> poPrice,
   bal |-> balObs]

\* the order record the venue creates for the request of create_order
NewVenueOrder(id, side, p, amount) ==
  [ id |-> id, side |-> IF side = "bid" THEN "Bid" ELSE "Ask", price |-> p,
    quantity |-> amount, executedQuantity |-> 0, status |-> "New" ]

\* create_order returned the new order: it is added to the ledger as open
PoCreateOk ==
  /\ pc = "po_create" /\ nCreate < CreateBudget
  /\ LET p      == grid_prices[lvl]
         amount == get_order_amount(cfg, p)
         id     == nCreate + 1
     IN  /\ venue' = Put(venue, id, NewVenueOrder(id, poSide, p, amount))
         /\ ledger' = add_order(ledger, OrderInfo(id, poSide, p, amount))
         /\ lastSubmit' = Submission(poSide, p, amount)
  /\ poReq' = [poReq EXCEPT !.calls = @ \cup {"create_order"}]
  /\ nCreate' = nCreate + 1
  /\ PoNextLevel
  /\ UNCHANGED << cfg, env, call, result, guard, pgoRet, caoRet, pgoPrice, caaVars, caoVars, now,
                  relayBase, riskBreached, shutdown, allOk >>

\* faulty variant of PoCreateFail: the order is entered in the ledger although
\* create_order raised
PoCreateFailAdds ==
  /\ pc = "po_create" /\ nCreate < CreateBudget
  /\ lastSubmit' = Submission(poSide, grid_prices[lvl],
                              get_order_amount(cfg, grid_prices[lvl]))
  /\ poReq' = [poReq EXCEPT !.calls = @ \cup {"create_order"}]
  /\ nCreate' = nCreate + 1
  /\ PoNextLevel
  /\ allOk' = FALSE
  /\ ledger' = add_order(ledger, OrderInfo(nCreate + 1, poSide, grid_prices[lvl],
                                           get_order_amount(cfg, grid_prices[lvl])))
  /\ UNCHANGED << cfg, env, call, result, guard, venue, pgoRet, caoRet, pgoPrice, caaVars,
                  caoVars, now, relayBase, riskBreached, shutdown >>

\* create_order raised: place_order logs and returns None
PoCreateFail ==
  /\ pc = "po_create" /\ nCreate < CreateBudget
  /\ lastSubmit' = Submission(poSide, grid_prices[lvl],
                              get_order_amount(cfg, grid_prices[lvl]))
  /\ poReq' = [poReq EXCEPT !.calls = @ \cup {"create_order"}]
  /\ nCreate' = nCreate + 1
  /\ PoNextLevel
  /\ allOk' = FALSE
  /\ UNCHANGED << cfg, env, call, result, guard, venue, ledger, pgoRet, caoRet, pgoPrice, caaVars,
                  caoVars, now, relayBase, riskBreached, shutdown >>

\* ---------------------------------------------- check_and_adjust_orders()
\* faulty variant of CaaFail: the except branch returns False
CaaFailStops ==
  /\ pc' = "stopped"
  /\ allOk' = FALSE
  /\ caaPrice' = 0 /\ baseObs' = 0 /\ openSnap' = << >>

\* except Exception: return True; run() then sleeps
CaaFail ==
  /\ pc' = "sleep"
  /\ allOk' = FALSE
  /\ caaPrice' = 0 /\ baseObs' = 0 /\ openSnap' = << >>

\* faulty variant of CaaTickerOk: the orders are cancelled as soon as the
\* price is known, before the stop-loss / take-profit test
CaaTickerOkSweepsFirst ==
  /\ pc = "caa_ticker"
  /\ \E p \in TickerPrices : caaPrice' = p
  /\ CaoEnter("risk")
  /\ UNCHANGED << cfg, balObs, env, call, result, guard, venue, ledger, pgoRet, pgoVars, baseObs,
                  openSnap, now, histVars, allOk >>

CaaTickerOk ==
  /\ pc = "caa_ticker"
  /\ \E p \in TickerPrices : caaPrice' = p
  /\ pc' = "caa_balance"
  /\ UNCHANGED << cfg, balObs, env, call, result, guard, venue, ledger, pgoRet, caoRet, pgoVars, baseObs,
                  openSnap, caoVars, now, histVars, allOk >>

CaaTickerFail ==
  /\ pc = "caa_ticker"
  /\ CaaFail
  /\ UNCHANGED << cfg, balObs, env, call, result, guard, venue, ledger, pgoRet, caoRet, pgoVars, caoVars,
                  now, histVars >>

\* fetch_balance returned; then the stop-loss / take-profit check
CaaBalanceOk ==
  /\ pc = "caa_balance"
  /\ \E b \in FreeBalances : baseObs' = b.base
  /\ IF Breached(cfg, caaPrice)
     THEN /\ riskBreached' = TRUE
          /\ CaoEnter("risk")
     ELSE /\ pc' = "caa_open"
          /\ UNCHANGED << riskBreached, caoRet, caoVars >>
  /\ guard' = "done"
  /\ UNCHANGED << cfg, balObs, env, call, result, venue, ledger, pgoRet, pgoVars, caaPrice,
                  openSnap, now, nCreate, lastSubmit, poReq, relayBase, shutdown, allOk >>

CaaBalanceFail ==
  /\ pc = "caa_balance"
  /\ CaaFail
  /\ UNCHANGED << cfg, balObs, env, call, result, guard, venue, ledger, pgoRet, caoRet, pgoVars, caoVars,
                  now, histVars >>

\* fetch_open_orders returned; the ledger is reconciled with the list
CaaOpenOk ==
  /\ pc = "caa_open"
  /\ openSnap' = fetch_open_orders(venue)
  /\ ledger' = Reconcile(ledger, openSnap', 1, now)
  /\ pc' = "caa_policy"
  /\ UNCHANGED << cfg, balObs, env, call, result, guard, venue, pgoRet, caoRet, pgoVars, caaPrice, baseObs,
                  caoVars, now, histVars, allOk >>

CaaOpenFail ==
  /\ pc = "caa_open"
  /\ CaaFail
  /\ UNCHANGED << cfg, balObs, env, call, result, guard, venue, ledger, pgoRet, caoRet, pgoVars, caoVars,
                  now, histVars >>

\* the rebalancing decision: place_grid_orders(), or nothing; then return True
CaaPolicy ==
  /\ pc = "caa_policy"
  /\ IF NeedRelay(cfg, grid_prices, caaPrice, baseObs, openSnap)
     THEN /\ pc' = "pgo_ticker" /\ pgoRet' = "caa"
     ELSE /\ pc' = "sleep" /\ UNCHANGED pgoRet
  /\ caaPrice' = 0 /\ baseObs' = 0 /\ openSnap' = << >>
  /\ UNCHANGED << cfg, balObs, env, call, result, guard, venue, ledger, caoRet, pgoVars, caoVars, now,
                  histVars, allOk >>

\* time.sleep(check_interval), then the next iteration
Sleep ==
  /\ pc = "sleep" /\ now < MaxClock
  /\ now' = now + 1
  /\ pc' = "caa_ticker"
  /\ allOk' = TRUE
  /\ guard' = "pending"
  /\ UNCHANGED << cfg, balObs, env, call, result, venue, ledger, pgoRet, caoRet, pgoVars, caaVars,
                  caoVars, histVars >>

\* -------------------------------------------------------- signal_handler()
\* SIGINT / SIGTERM: the handler runs at once and calls cancel_all_orders(); a
\* signal that arrives while the handler runs starts the handler again
Signal ==
  /\ pc \notin Terminal
  /\ shutdown' = TRUE
  /\ CaoEnter("signal")
  /\ allOk' = TRUE
  /\ pgoPrice' = 0 /\ poPrice' = 0 /\ poSide' = "none" /\ lvl' = 1
  /\ balObs' = NoBalance
  /\ caaPrice' = 0 /\ baseObs' = 0 /\ openSnap' = << >>
  /\ lastSubmit' = NoSubmit
  /\ poReq' = NoReq
  /\ relayBase' = 0
  /\ guard' = "none"
  /\ UNCHANGED << cfg, env, call, result, venue, ledger, pgoRet, now, nCreate, riskBreached >>

\* ------------------------------------------------------------- the venue
engineVars == << cfg, balObs, env, call, result, guard, ledger, pc, pgoRet, caoRet, pgoVars, caaVars, caoVars, now,
                 histVars, allOk >>

\* the venue fills an order; the order is still listed, as closed
VenueFill ==
  /\ pc \notin Terminal
  /\ \E id \in DOMAIN venue :
       /\ venue[id].status = "New"
       /\ venue' = [venue EXCEPT ![id].status = "closed",
                                 ![id].executedQuantity = venue[id].quantity]
  /\ UNCHANGED engineVars

\* the venue stops listing a filled order
VenueUnlist ==
  /\ pc \notin Terminal
  /\ \E id \in DOMAIN venue :
       /\ venue[id].status = "closed"
       /\ venue' = Remove(venue, id)
  /\ UNCHANGED engineVars

Next ==
  \/ Run
  \/ PgoTickerOk \/ PgoTickerFail
  \/ CaoFetchOk \/ CaoFetchFail \/ CaoCancelOk \/ CaoCancelFail
  \/ CaoReturnToPlace \/ RiskStop \/ HandlerExit
  \/ PgoSkipLevel \/ PgoCheckBalance \/ PgoCheckBalanceFail \/ PgoReturn
  \/ PoTickerOk \/ PoTickerFail \/ PoCreateOk \/ PoCreateFail
  \/ CaaTickerOk \/ CaaTickerFail \/ CaaBalanceOk \/ CaaBalanceFail
  \/ CaaOpenOk \/ CaaOpenFail \/ CaaPolicy \/ Sleep
  \/ Signal
  \/ VenueFill \/ VenueUnlist

Spec == Init /\ [][Next]_vars

\* ------------------------------------------------------------ properties
SweepPcs == {"cao_fetch", "cao_cancel", "cao_ret"}
PlacePcs == {"pgo_level", "po_ticker", "po_create"}

\* the engine takes a step out of the position it is in, outside the handler
StepFrom(at) == pc = at /\ pc' # at /\ ~shutdown'

C2_PlacementRule ==
  lastSubmit # NoSubmit =>
    /\ \E i \in DOMAIN grid_prices : grid_prices[i] = lastSubmit.price
    /\ 9 * lastSubmit.cur <= 10 * lastSubmit.price
    /\ 10 * lastSubmit.price <= 11 * lastSubmit.cur
    /\ lastSubmit.side \in {"bid", "ask"}
    /\ lastSubmit.side = "bid" =>
         (lastSubmit.price < lastSubmit.cur /\ lastSubmit.price < lastSubmit.cur2)
    /\ lastSubmit.side = "ask" =>
         (lastSubmit.price > lastSubmit.cur /\ lastSubmit.price > lastSubmit.cur2)

\* C2 witness: a Sell was submitted after the levels below it were passed,
\* one of them outside the band and one equal to the current price
C2_Witness ==
  /\ lastSubmit.side = "ask" /\ lastSubmit.price = 11000
  /\ lastSubmit.cur = 10000
  /\ ~(9 * lastSubmit.cur <= 10 * grid_prices[1])
  /\ grid_prices[3] = lastSubmit.cur

C4_ShutdownSweep ==
  /\ [][ shutdown' => (nCreate' = nCreate /\ DOMAIN venue' \subseteq DOMAIN venue) ]_vars
  /\ [](shutdown => (pc \in SweepPcs \cup {"exited"} /\ caoRet = "signal"))
  /\ [](pc = "exited" => (shutdown /\ caoTried = SnapIds(caoSnap)))

\* C4 witness: the process exited after a sweep over a snapshot of two orders
\* that cancelled an order of the ledger
C4_Witness ==
  /\ pc = "exited" /\ Len(caoSnap) >= 2
  /\ \E id \in caoTried : id \in DOMAIN ledger /\ ledger[id].status = "cancelled"

\* C5: in cancel_all_orders cancel_order is called for the orders of the
\* snapshot one after the other whatever the earlier calls did: during the
\* sweep the calls made are those for the orders before the current position,
\* and at the end of the sweep a call was made for every order of the snapshot.
C5_SweepContinues ==
  /\ caoFail \subseteq caoTried
  /\ pc = "cao_cancel" =>
       /\ caoIdx <= Len(caoSnap)
       /\ caoTried = { caoSnap[i].id : i \in 1 .. caoIdx - 1 }
  /\ pc \in {"cao_ret", "stopped", "exited"} => caoTried = SnapIds(caoSnap)

\* C5 witness: the sweep ended with every order tried although the call for
\* the first order of the snapshot raised
C5_Witness ==
  /\ pc = "cao_ret" /\ Len(caoSnap) >= 2
  /\ caoSnap[1].id \in caoFail
  /\ caoTried = SnapIds(caoSnap)

\* C6: a venue call that raises never ends the run: the step in which a call
\* raises does not leave the loop, a call that raises in check_and_adjust_orders
\* leads to time.sleep, and the run ends only after the stop-loss / take-profit
\* check evaluated true or after a signal.
C6_ErrorsDoNotTerminate ==
  /\ [](pc \in Terminal => (riskBreached \/ shutdown))
  /\ [][ (allOk /\ ~allOk') => pc' \notin Terminal ]_vars
  /\ [][ (pc \in {"caa_ticker", "caa_balance", "caa_open"} /\ allOk /\ ~allOk')
         => pc' = "sleep" ]_vars

\* C6 witness: after a call raised in an iteration the engine sleeps, and the
\* next iteration can start
C6_Witness ==
  pc = "sleep" /\ ~allOk /\ ~riskBreached /\ ~shutdown /\ now < MaxClock

\* C7: place_grid_orders runs the cancel sweep before it submits an order:
\* from the first level on and until it returns, when every venue call of the
\* iteration succeeded, every order on the venue was created during this
\* place_grid_orders.
C7_FullReplace ==
  (pc \in PlacePcs /\ allOk) => \A id \in DOMAIN venue : id > relayBase

\* C7 witness: place_grid_orders is over, every call succeeded, and the venue
\* holds an order it created
C7_Witness ==
  /\ pc = "pgo_level" /\ lvl > Len(grid_prices) /\ allOk
  /\ \E id \in DOMAIN venue : id > relayBase

\* number of Buy / Sell orders of the fetched list
NumSide(snap, side) == Cardinality({ i \in DOMAIN snap : snap[i].side = side })
\* number of ladder prices below / above a price
NumBelow(cur) == Cardinality({ i \in DOMAIN grid_prices : grid_prices[i] < cur })
NumAbove(cur) == Cardinality({ i \in DOMAIN grid_prices : grid_prices[i] > cur })
\* floor(balance * (1 - 0.003) / per-level amount at the current price)
SellCapacity(cur, base) ==
  (base * 997) \div (1000 * get_order_amount(cfg, cur))
SellTarget(cur, base) ==
  IF NumAbove(cur) <= SellCapacity(cur, base) THEN NumAbove(cur)
  ELSE SellCapacity(cur, base)

\* C8: in an iteration whose base balance is zero, place_grid_orders is called
\* if and only if the fetched list holds fewer Buy orders than there are
\* ladder prices below the current price.
C8_BuySidePolicy ==
  [][ (StepFrom("caa_policy") /\ baseObs = 0)
      => ((pc' = "pgo_ticker") <=> (NumSide(openSnap, "Bid") < NumBelow(caaPrice))) ]_vars

\* C8 witness: the decision is due with base balance zero, two ladder prices
\* below the current price and two Buy orders in the list (no re-lay)
C8_Witness ==
  /\ pc = "caa_policy" /\ baseObs = 0
  /\ NumBelow(caaPrice) = 2 /\ NumSide(openSnap, "Bid") = 2

C10_BuyShortAlwaysRelays ==
  [][ (StepFrom("caa_policy") /\ NumSide(openSnap, "Bid") < NumBelow(caaPrice))
      => pc' = "pgo_ticker" ]_vars

\* C10 amended: fewer Buy orders than ladder prices below the current price
\* calls place_grid_orders when the base balance is zero; with a base balance
\* above zero the Buy side is not looked at: the call is made only when Sell
\* orders are short.
C10_BuySideOnlyWithoutBase ==
  [][ (StepFrom("caa_policy") /\ NumSide(openSnap, "Bid") < NumBelow(caaPrice))
      => /\ baseObs = 0 => pc' = "pgo_ticker"
         /\ (baseObs > 0 /\ ~(NumSide(openSnap, "Ask") < SellTarget(caaPrice, baseObs)))
              => pc' # "pgo_ticker" ]_vars

\* C10 witness: two ladder prices below the current price, one Buy order in
\* the list, base balance zero
C10_Witness ==
  /\ pc = "caa_policy" /\ baseObs = 0
  /\ NumBelow(caaPrice) = 2 /\ NumSide(openSnap, "Bid") = 1

\* ---------------------------------------------------------- reconciliation
\* C11 as claimed: after the reconciliation of an iteration, every ledger
\* order the fetched list reports as closed is closed in the ledger, its
\* filled amount is the executed quantity the venue reports, a filled price
\* is recorded, and a Sell has a profit.
C11_ReconcileCopiesFill ==
  [][ StepFrom("caa_open") /\ pc' = "caa_policy"
      => \A i \in DOMAIN openSnap' :
           LET o == openSnap'[i]
           IN  (o.id \in DOMAIN ledger /\ o.status = "closed")
               => /\ ledger'[o.id].status = "closed"
                  /\ ledger'[o.id].filled_amount = o.filled
                  /\ ledger'[o.id].filled_price # NoneVal
                  /\ (ledger'[o.id].side = "ask" => ledger'[o.id].profit # NoneVal) ]_vars

\* ================================================== the Order Ledger alone
\* OrderManager driven directly: any sequence of add_order / update_order
\* calls, with the clock moving between calls.

\* order ids handed to the ledger calls: 1 .. MaxOrders (0 is never added)
MaxOrders == 1

\* status arguments of update_order
Statuses == {"open", "closed", "cancelled"}
\* filled_price arguments: omitted (None), 0.0, 110.00
FillPrices == {NoneVal, 0, 11000}
\* filled_amount arguments: omitted (None), 0.0, 1.000
FillAmounts == {NoneVal, 0, 1000}
\* orders handed to add_order: a Buy or a Sell of 1.000 at 100.00
LedgerOrders ==
  { OrderInfo(id, side, 10000, 1000) : id \in 1 .. MaxOrders, side \in {"bid", "ask"} }

\* the variables the ledger calls leave alone
ledgerFrame == << cfg, balObs, env, guard, venue, pc, pgoRet, caoRet, pgoVars, caaVars, caoVars,
                 histVars, allOk >>

InitLedger ==
  /\ cfg \in EngineConfigs
  /\ env = NoEnv
  /\ balObs = NoBalance
  /\ venue = << >>
  /\ ledger = << >>
  /\ pc = "ledger"
  /\ pgoRet = "init"
  /\ caoRet = "pgo"
  /\ pgoPrice = 0 /\ poPrice = 0 /\ poSide = "none" /\ lvl = 1
  /\ caaPrice = 0 /\ baseObs = 0 /\ openSnap = << >>
  /\ caoSnap = << >> /\ caoIdx = 1
  /\ now = 0
  /\ nCreate = 0
  /\ lastSubmit = NoSubmit
  /\ poReq = NoReq
  /\ caoTried = {} /\ caoFail = {}
  /\ relayBase = 0
  /\ allOk = TRUE
  /\ riskBreached = FALSE
  /\ shutdown = FALSE
  /\ call = NoCall
  /\ result = NoneVal
  /\ guard = "none"

\* order_manager.add_order(order)
LedgerAdd ==
  /\ pc = "ledger"
  /\ \E order \in LedgerOrders :
       /\ ledger' = add_order(ledger, order)
       /\ call' = [op |-> "add_order", order_id |-> order.order_id]
  /\ UNCHANGED << ledgerFrame, now, result >>

\* order_manager.update_order(order_id, status, filled_price, filled_amount)
LedgerUpdate ==
  /\ pc = "ledger"
  /\ \E id \in 0 .. MaxOrders, status \in Statuses,
        fp \in FillPrices, fa \in FillAmounts :
       /\ ledger' = update_order(ledger, id, status, fp, fa, now)
       /\ call' = [op |-> "update_order", order_id |-> id, status |-> status,
                   filled_price |-> fp, filled_amount |-> fa]
  /\ UNCHANGED << ledgerFrame, now, result >>

\* time passes between two calls: datetime.now() moves on
LedgerTick ==
  /\ pc = "ledger" /\ now < MaxClock
  /\ now' = now + 1
  /\ call' = [op |-> "tick"]
  /\ UNCHANGED << ledgerFrame, ledger, result >>

NextLedger == LedgerAdd \/ LedgerUpdate \/ LedgerTick

SpecLedger == InitLedger /\ [][NextLedger]_vars

\* the step is a call update_order(id, ...) for an order the ledger holds
UpdateOf(id) ==
  /\ call'.op = "update_order" /\ call'.order_id = id
  /\ id \in DOMAIN ledger
  /\ vars' # vars

\* C12 as claimed: a call of update_order for an order without a profit
\* populates profit exactly when the order is a Sell and a filled price and a
\* filled amount were both passed, a passed 0 included.
C12_ProfitIffSellAndSupplied ==
  [][ \A id \in 0 .. MaxOrders :
        (UpdateOf(id) /\ ledger[id].profit = NoneVal)
        => ((ledger'[id].profit # NoneVal)
              <=> /\ ledger[id].side = "ask"
                  /\ call'.filled_price # NoneVal
                  /\ call'.filled_amount # NoneVal) ]_vars

\* C13 as claimed: once closed_at has been stamped, a second update_order
\* call with the same terminal status leaves it as it is.
C13_ClosedAtStampedOnce ==
  [][ \A id \in 0 .. MaxOrders :
        (UpdateOf(id) /\ ledger[id].closed_at # NoneVal
           /\ call'.status \in {"closed", "cancelled"}
           /\ call'.status = ledger[id].status)
        => ledger'[id].closed_at = ledger[id].closed_at ]_vars

\* ========================================= the Price Ladder Generator alone
\* calculate_grid_prices and get_order_amount applied to the configurations
\* GridTrader.__init__ can read; no validation precedes them in __init__.

\* largest grid_number of the configurations
MaxGrid == 4

\* lower < upper, N >= 1, investment > 0
ValidConfig(c) ==
  c.lower_price < c.upper_price /\ c.grid_number >= 1 /\ c.investment > 0

\* arithmetic ladders around 100.00, among them steps below 0.01 and the
\* ladder 100 .. 200; geometric ladders between 0.10 and 0.36 (the bounds keep
\* (2 * upper + 1)^(N + 1) inside 32 bits); configurations that are not valid
LadderConfigs ==
  { [ lower_price |-> lo, upper_price |-> up, grid_number |-> n,
      investment |-> 40000, grid_type |-> "arithmetic", min_order_size |-> m, max_orders |-> 1,
      stop_loss_price |-> 7500, take_profit_price |-> 22500 ] :
      lo \in {10000}, up \in {10001, 12000, 20000}, n \in 1 .. MaxGrid,
      m \in {10, 5000} }
  \cup
  { [ lower_price |-> lo, upper_price |-> up, grid_number |-> n,
      investment |-> 40000, grid_type |-> "geometric", min_order_size |-> m, max_orders |-> 1,
      stop_loss_price |-> 5, take_profit_price |-> 50 ] :
      lo \in {10, 16}, up \in {20, 36}, n \in 1 .. MaxGrid, m \in {10, 5000} }
  \cup
  { [ lower_price |-> lo, upper_price |-> up, grid_number |-> n,
      investment |-> inv, grid_type |-> "arithmetic", min_order_size |-> 10, max_orders |-> 1,
      stop_loss_price |-> 7500, take_profit_price |-> 22500 ] :
      lo \in {10000}, up \in {8000, 10000, 12000}, n \in {-1, 0, 2},
      inv \in {0, 40000} }

\* the variables the ladder functions leave alone
ladderFrame == << cfg, balObs, env, guard, venue, ledger, pc, pgoRet, caoRet, pgoVars, caaVars,
                 caoVars, now, histVars, allOk >>

InitLadder ==
  /\ cfg \in LadderConfigs
  /\ env = NoEnv
  /\ balObs = NoBalance
  /\ venue = << >>
  /\ ledger = << >>
  /\ pc = "ladder"
  /\ pgoRet = "init"
  /\ caoRet = "pgo"
  /\ pgoPrice = 0 /\ poPrice = 0 /\ poSide = "none" /\ lvl = 1
  /\ caaPrice = 0 /\ baseObs = 0 /\ openSnap = << >>
  /\ caoSnap = << >> /\ caoIdx = 1
  /\ now = 0
  /\ nCreate = 0
  /\ lastSubmit = NoSubmit
  /\ poReq = NoReq
  /\ caoTried = {} /\ caoFail = {}
  /\ relayBase = 0
  /\ allOk = TRUE
  /\ riskBreached = FALSE
  /\ shutdown = FALSE
  /\ call = NoCall
  /\ result = NoneVal
  /\ guard = "none"

\* self.grid_prices = self.calculate_grid_prices(); the division by
\* grid_number raises ZeroDivisionError for grid_number = 0
LadderBuild ==
  /\ pc = "ladder"
  /\ IF cfg.grid_number = 0
     THEN /\ call' = [op |-> "calculate_grid_prices", raised |-> "ZeroDivisionError"]
          /\ result' = NoneVal
     ELSE /\ call' = [op |-> "calculate_grid_prices", raised |-> "none"]
          /\ result' = calculate_grid_prices(cfg)
  /\ UNCHANGED ladderFrame

\* prices get_order_amount is called with: the ladder's levels
\* (place_grid_orders) and the ticker's price (check_and_adjust_orders)
AmountPrices(c) ==
  { calculate_grid_prices(c)[i] : i \in DOMAIN calculate_grid_prices(c) }
    \cup { 9000, 15000 }

\* self.get_order_amount(price), in an engine that has a ladder
LadderAmount ==
  /\ pc = "ladder" /\ cfg.grid_number >= 1
  /\ \E p \in AmountPrices(cfg) :
       /\ call' = [op |-> "get_order_amount", raised |-> "none", price |-> p]
       /\ result' = get_order_amount(cfg, p)
  /\ UNCHANGED ladderFrame

NextLadder == LadderBuild \/ LadderAmount

SpecLadder == InitLadder /\ [][NextLadder]_vars

\* calculate_grid_prices has returned a ladder for a valid configuration
BuiltValid ==
  /\ call.op = "calculate_grid_prices" /\ call.raised = "none"
  /\ ValidConfig(cfg)

\* C14 as claimed: for a valid configuration the ladder has N + 1 prices,
\* strictly increasing, the first equal to lower and the last to upper.
C14_LadderStrictlyIncreasing ==
  BuiltValid
  => /\ Len(result) = cfg.grid_number + 1
     /\ \A i \in 1 .. Len(result) - 1 : result[i] < result[i + 1]
     /\ result[1] = cfg.lower_price
     /\ result[Len(result)] = cfg.upper_price

\* |x|
Abs(x) == IF x >= 0 THEN x ELSE 0 - x

\* C15: in arithmetic mode, for a valid configuration, level i (i = 0 .. N)
\* is lower + i x (upper - lower)/N rounded to 2 decimals, that is within
\* 0.005 of it; so two consecutive levels differ by the step (upper - lower)/N
\* to within 0.01; and lower=100, upper=200, N=4 gives [100, 125, 150, 175, 200].
C15_ArithmeticLevels ==
  (BuiltValid /\ cfg.grid_type = "arithmetic")
  => LET n == cfg.grid_number
         d == cfg.upper_price - cfg.lower_price
     IN  /\ Len(result) = n + 1
         /\ \A i \in 0 .. n :
              2 * Abs(n * result[i + 1] - (n * cfg.lower_price + i * d)) <= n
         /\ \A i \in 1 .. n :
              Abs(n * (result[i + 1] - result[i]) - d) <= n
         /\ (cfg.lower_price = 10000 /\ cfg.upper_price = 20000 /\ n = 4)
              => result = << 10000, 12500, 15000, 17500, 20000 >>

\* C15 witness: the ladder of lower=100, upper=200, N=4 has been built
C15_Witness ==
  /\ BuiltValid /\ cfg.grid_type = "arithmetic"
  /\ cfg.lower_price = 10000 /\ cfg.upper_price = 20000 /\ cfg.grid_number = 4
  /\ result = << 10000, 12500, 15000, 17500, 20000 >>

\* ======================================= the engine on an invalid ladder
\* a configuration with upper < lower: __init__ builds the ladder
\* [120, 110, 100, 90, 80] and run() starts as with any other ladder
BadEngineConfigs ==
  { [ lower_price |-> 12000, upper_price |-> 8000, grid_number |-> 4,
      investment |-> 40000, grid_type |-> "arithmetic", min_order_size |-> 10, max_orders |-> 1,
      stop_loss_price |-> 7500, take_profit_price |-> 12500 ] }

InitBadConfig ==
  /\ cfg \in BadEngineConfigs
  /\ env = NoEnv
  /\ balObs = NoBalance
  /\ venue \in { << >>, [id \in {ExternalOrder.id} |-> ExternalOrder] }
  /\ ledger = << >>
  /\ pc = "run_start"
  /\ pgoRet = "init"
  /\ caoRet = "pgo"
  /\ pgoPrice = 0 /\ poPrice = 0 /\ poSide = "none" /\ lvl = 1
  /\ caaPrice = 0 /\ baseObs = 0 /\ openSnap = << >>
  /\ caoSnap = << >> /\ caoIdx = 1
  /\ now = 0
  /\ nCreate = 0
  /\ lastSubmit = NoSubmit
  /\ poReq = NoReq
  /\ caoTried = {} /\ caoFail = {}
  /\ relayBase = 0
  /\ allOk = TRUE
  /\ riskBreached = FALSE
  /\ shutdown = FALSE
  /\ call = NoCall
  /\ result = NoneVal
  /\ guard = "none"

SpecBadConfig == InitBadConfig /\ [][Next]_vars

\* C16 as claimed: with upper <= lower, N <= 0 or investment <= 0 the engine
\* does not start: it never calls create_order or cancel_order.
C16_InvalidConfigNeverTrades ==
  ~ValidConfig(cfg) => (nCreate = 0 /\ caoTried = {})

\* get_order_amount has returned for the price call.price
AmountReturned == call.op = "get_order_amount" /\ call.raised = "none"

\* C17: get_order_amount(price) is max(round(investment/N/price, 3),
\* min_order_size): it is never below min_order_size, and it is the larger of
\* min_order_size and the amount r within 0.0005 of investment/N/price.
C17_AmountAtLeastMinimum ==
  (AmountReturned /\ ValidConfig(cfg))
  => LET d == cfg.grid_number * call.price
         x == 1000 * cfg.investment
     IN  /\ result >= cfg.min_order_size
         /\ \E r \in (x \div d) .. (x \div d) + 1 :
              /\ 2 * Abs(x - r * d) <= d
              /\ result = IF r >= cfg.min_order_size THEN r ELSE cfg.min_order_size

\* C17 witness: an amount was returned that the minimum order size raised
\* (investment/N/price rounds to less than min_order_size)
C17_Witness ==
  /\ AmountReturned /\ ValidConfig(cfg)
  /\ result = cfg.min_order_size
  /\ 1000 * cfg.investment < cfg.min_order_size * cfg.grid_number * call.price

\* ------------------------------------------------------------- Risk Guard
\* C18: the stop-loss / take-profit test of an iteration (made once the
\* balance fetch has returned) takes the breach branch exactly when the
\* price is <= stop-loss or >= take-profit; for a price strictly between the
\* two it goes on to fetch the open orders.
C18_GuardPredicate ==
  [][ (StepFrom("caa_balance") /\ pc' # "sleep")
      => /\ (pc' = "cao_fetch" /\ caoRet' = "risk" /\ riskBreached')
              <=> (caaPrice <= cfg.stop_loss_price \/ caaPrice >= cfg.take_profit_price)
         /\ (cfg.stop_loss_price < caaPrice /\ caaPrice < cfg.take_profit_price)
              => (pc' = "caa_open" /\ ~riskBreached') ]_vars

\* C18 witness: the test took the breach branch for a price equal to the
\* take-profit price
C18_Witness ==
  /\ pc = "cao_fetch" /\ caoRet = "risk" /\ riskBreached /\ ~shutdown
  /\ caaPrice = cfg.take_profit_price

\* the step issues a create_order or a cancel_order call
OrderAction == nCreate' # nCreate \/ (caoTried' # caoTried /\ caoTried' # {})

\* C19: no create_order or cancel_order call is issued in a loop iteration
\* whose stop-loss / take-profit test has not been evaluated yet; the test
\* is evaluated on the price fetched in that iteration.
C19_GuardBeforeOrders ==
  /\ [][ OrderAction => guard # "pending" ]_vars
  /\ [][ (guard = "pending" /\ guard' = "done")
         => (pc = "caa_balance" /\ caaPrice \in Prices
             /\ (riskBreached' <=> (riskBreached \/ Breached(cfg, caaPrice)))) ]_vars

\* C19 witness: a cancel sweep of a re-lay inside a loop iteration has
\* called cancel_order, after the test of that iteration
C19_Witness ==
  /\ guard = "done" /\ ~shutdown /\ ~riskBreached
  /\ pc \in SweepPcs /\ pgoRet = "caa" /\ caoTried # {}

\* ------------------------------------------------- place_order's own test
\* C20 as claimed: a place_order call that skipped its order at the
\* would-execute-immediately test has issued no venue request.
C20_SkipWithoutVenueRequest ==
  poReq.skipped => poReq.calls = {}

\* C20 amended: place_order fetches the ticker first; a Buy at or above that
\* price, or a Sell at or below it, is skipped with no create_order call (the
\* ticker fetch is the only venue request of the call), and every
\* create_order call is for a Buy below / a Sell above the fetched price.
C20_SkipBeforeCreateOrder ==
  /\ [](poReq.skipped
          => /\ poReq.calls = {"fetch_ticker"}
             /\ lastSubmit = NoSubmit
             /\ \/ (poReq.side = "bid" /\ poReq.price >= poReq.cur)
                \/ (poReq.side = "ask" /\ poReq.price <= poReq.cur))
  /\ []("create_order" \in poReq.calls
          => /\ ~poReq.skipped /\ "fetch_ticker" \in poReq.calls
             /\ poReq.side = "bid" => poReq.price < poReq.cur
             /\ poReq.side = "ask" => poReq.price > poReq.cur)
  /\ [][ (StepFrom("po_ticker") /\ poReq'.skipped)
         => (nCreate' = nCreate /\ venue' = venue /\ ledger' = ledger) ]_vars

\* C20 witness: place_order was called for a Sell at 80.00 (the price was
\* 75.00 when place_grid_orders chose it), fetched a higher price and skipped it
C20_Witness ==
  /\ pc = "pgo_level" /\ poReq.skipped
  /\ poReq.side = "ask" /\ poReq.price < poReq.cur
  /\ poReq.calls = {"fetch_ticker"}

\* ----------------------------------------------------------- the handler
\* C21 as claimed: signal_handler never starts in the middle of a placement
\* sweep (place_grid_orders / place_order) or of a cancel sweep
\* (cancel_all_orders) of the main flow.
C21_HandlerAtBoundary ==
  [][ (~shutdown /\ shutdown') => pc \notin (PlacePcs \cup SweepPcs) ]_vars

\* ------------------------------------------------------- the run's phases
\* Starting: run() up to the end of the initial place_grid_orders();
\* Active: the loop; RiskStopped: from the breach on; ShuttingDown: from the
\* start of signal_handler on
Phase ==
  IF shutdown THEN "ShuttingDown"
  ELSE IF riskBreached THEN "RiskStopped"
  ELSE IF guard = "none" THEN "Starting"
  ELSE "Active"

\* C22 as claimed: the phase changes only from Starting to Active, from
\* Active to RiskStopped and from Active to ShuttingDown.
C22_PhaseTransitions ==
  [][ Phase' # Phase
      => << Phase, Phase' >> \in { << "Starting", "Active" >>,
                                   << "Active", "RiskStopped" >>,
                                   << "Active", "ShuttingDown" >> } ]_vars

\* ------------------------------------------------------ rejected calls
\* C23: a create_order call that raised adds no ledger entry; a cancel_order
\* call that raised leaves the ledger as it was; an entry becomes cancelled
\* only in the step in which cancel_order returned for it (the venue has
\* cancelled the order and no longer holds it).
C23_RejectedCallsLeaveLedger ==
  /\ [][ (nCreate' # nCreate /\ venue' = venue) => ledger' = ledger ]_vars
  /\ [][ caoFail' \ caoFail # {} => ledger' = ledger ]_vars
  /\ [][ \A id \in DOMAIN ledger' :
           (ledger'[id].status = "cancelled"
              /\ (id \notin DOMAIN ledger \/ ledger[id].status # "cancelled"))
           => /\ pc = "cao_cancel" /\ caoSnap[caoIdx].id = id
              /\ id \in caoTried' /\ id \notin caoFail'
              /\ id \in DOMAIN venue /\ id \notin DOMAIN venue' ]_vars
  /\ [][ DOMAIN ledger' # DOMAIN ledger
         => (nCreate' = nCreate + 1 /\ DOMAIN venue' = DOMAIN venue \cup {nCreate'}
             /\ DOMAIN ledger' = DOMAIN ledger \cup {nCreate'}) ]_vars

\* C23 witness: cancel_order raised for an order of the ledger, which is
\* still open there, after a create_order call had succeeded
C23_Witness ==
  \E id \in caoFail : id \in DOMAIN ledger /\ ledger[id].status = "open"

\* ------------------------------------------------------ ledger, unknown id
\* C24: update_order called with an id that is not in the ledger changes
\* nothing: no entry is created and every entry stays as it was.
C24_UnknownIdNoOp ==
  [][ (call'.op = "update_order" /\ call' # call
         /\ call'.order_id \notin DOMAIN ledger)
      => ledger' = ledger ]_vars

\* C24 witness: update_order('closed', 110.00, 1.000) has been called with an
\* id the ledger does not hold, while the ledger holds another order
C24_Witness ==
  /\ call.op = "update_order" /\ call.order_id \notin DOMAIN ledger
  /\ call.status = "closed" /\ call.filled_price > 0 /\ call.filled_amount > 0
  /\ ledger # << >>

\* ------------------------------------------------------ ledger, repeated id
\* C25 as claimed: add_order never replaces an entry: every add_order call
\* that changes the ledger adds one entry to it, whatever ids the venue's
\* records carry.
C25_AddNeverReplaces ==
  [][ (call'.op = "add_order" /\ ledger' # ledger)
      => /\ call'.order_id \notin DOMAIN ledger
         /\ Cardinality(DOMAIN ledger') = Cardinality(DOMAIN ledger) + 1 ]_vars

\* ------------------------------------------------- orders under a breach
\* C26 as claimed: no create_order call is issued while the price observed
\* last (the price place_order has just fetched) is at or below stop-loss or
\* at or above take-profit.
C26_NoSubmitInBreach ==
  lastSubmit # NoSubmit
  => (cfg.stop_loss_price < lastSubmit.cur2 /\ lastSubmit.cur2 < cfg.take_profit_price)

\* C27 as claimed: an iteration whose ticker fetch returned a price at or
\* below stop-loss or at or above take-profit does not go on to sleep and to a
\* next iteration, whatever other venue call of the iteration fails.
C27_BreachPriceAlwaysStops ==
  [][ (StepFrom("caa_balance")
         /\ (caaPrice <= cfg.stop_loss_price \/ caaPrice >= cfg.take_profit_price))
      => pc' # "sleep" ]_vars

\* ================================================ the engine in a still market
\* run() against a venue where nothing moves: every fetch_ticker returns the
\* same price, every fetch_balance the same balances, no order fills, no call
\* raises and no signal arrives
QuietBalances == Balances \cup { [base |-> 0, quote |-> 0] }

QuietMarkets ==
  { [price |-> p, bal |-> b, fixed |-> TRUE] : p \in Prices, b \in QuietBalances }

InitQuiet ==
  /\ cfg \in EngineConfigs
  /\ env \in QuietMarkets
  /\ balObs = NoBalance
  /\ venue \in { << >>, [id \in {ExternalOrder.id} |-> ExternalOrder] }
  /\ ledger = << >>
  /\ pc = "run_start"
  /\ pgoRet = "init"
  /\ caoRet = "pgo"
  /\ pgoPrice = 0 /\ poPrice = 0 /\ poSide = "none" /\ lvl = 1
  /\ caaPrice = 0 /\ baseObs = 0 /\ openSnap = << >>
  /\ caoSnap = << >> /\ caoIdx = 1
  /\ now = 0
  /\ nCreate = 0
  /\ lastSubmit = NoSubmit
  /\ poReq = NoReq
  /\ caoTried = {} /\ caoFail = {}
  /\ relayBase = 0
  /\ allOk = TRUE
  /\ riskBreached = FALSE
  /\ shutdown = FALSE
  /\ call = NoCall
  /\ result = NoneVal
  /\ guard = "none"

NextQuiet ==
  \/ Run
  \/ PgoTickerOk
  \/ CaoFetchOk \/ CaoCancelOk \/ CaoReturnToPlace \/ RiskStop
  \/ PgoSkipLevel \/ PgoCheckBalance \/ PgoReturn
  \/ PoTickerOk \/ PoCreateOk
  \/ CaaTickerOk \/ CaaBalanceOk \/ CaaOpenOk \/ CaaPolicy \/ Sleep

SpecQuiet == InitQuiet /\ [][NextQuiet]_vars

\* C28 as claimed: in a still market (same price, same balances, no fill, no
\* failed call) the iteration that follows a completed re-lay does not start
\* another re-lay, also when ladder levels lie outside the 10% band or the
\* quote balance does not cover the levels below the price.
C28_QuietNoSecondRelay ==
  [][ (pc = "caa_policy" /\ pgoRet = "caa") => pc' # "pgo_ticker" ]_vars

\* C29 as claimed: when an iteration in which every venue call succeeded
\* ends, every ledger entry with status open is an order the venue listed as
\* open in the open-order fetch of that iteration: an order that was filled
\* and is no longer listed does not stay open in the ledger.
C29_OpenLedgerOpenOnVenue ==
  [][ (pc = "caa_policy" /\ pc' = "sleep" /\ allOk)
      => \A id \in DOMAIN ledger :
           ledger[id].status = "open"
           => \E i \in DOMAIN openSnap :
                openSnap[i].id = id /\ openSnap[i].status = "New" ]_vars

\* ============================== the still market with a failing cancel sweep
\* the still market of SpecQuiet, except that the calls of cancel_all_orders
\* (fetch_open_orders, cancel_order) may raise
NextRelay ==
  \/ NextQuiet
  \/ CaoFetchFail \/ CaoCancelFail

SpecRelay == InitQuiet /\ [][NextRelay]_vars

\* the orders of the engine that are open on the venue at price p on side s
EngineOrdersAt(p, s) ==
  { id \in DOMAIN venue \cap DOMAIN ledger :
      venue[id].status = "New" /\ venue[id].price = p /\ venue[id].side = s }

\* C30 as claimed: once the startup placement or a re-lay is over, also one
\* whose open-order fetch or cancel calls failed, the venue holds at most one
\* open order of the engine per ladder price and side.
C30_OneOrderPerLevel ==
  pc \in {"caa_ticker", "sleep"}
  => \A i \in DOMAIN grid_prices : \A s \in {"Bid", "Ask"} :
       Cardinality(EngineOrdersAt(grid_prices[i], s)) <= 1

\* C31: place_grid_orders issues create_order for a Buy only when the quote
\* balance that check_balance fetched for that level is at least amount x
\* price, and for a Sell only when the fetched base balance is at least the
\* amount; an order is never submitted for a level whose balance fetch did
\* not return, and a failed balance fetch moves on to the next level.
C31_BalanceGating ==
  [][ /\ lastSubmit' # NoSubmit
         => /\ lastSubmit'.bal # NoBalance
            /\ lastSubmit'.side = "bid"
               => 1000 * lastSubmit'.bal.quote >= lastSubmit'.amount * lastSubmit'.price
            /\ lastSubmit'.side = "ask"
               => lastSubmit'.bal.base >= lastSubmit'.amount
      /\ (pc = "pgo_level" /\ allOk /\ ~allOk')
         => (pc' = "pgo_level" /\ lvl' = lvl + 1 /\ nCreate' = nCreate) ]_vars

\* a Sell has been submitted on a fetched base balance that covers it once
\* but not twice
C31_Witness ==
  /\ lastSubmit # NoSubmit
  /\ lastSubmit.side = "ask"
  /\ lastSubmit.bal.base >= lastSubmit.amount
  /\ lastSubmit.bal.base < 2 * lastSubmit.amount

\* the orders of the engine that are open on the venue
EngineOrdersOpen ==
  { id \in DOMAIN venue \cap DOMAIN ledger : venue[id].status = "New" }

\* C32 as claimed: the engine never has more orders open on the venue at the
\* same time than the configured maximum max_orders.
C32_AtMostMaxOrders ==
  Cardinality(EngineOrdersOpen) <= cfg.max_orders

====
